---- MODULE Spec2Model ----
(***************************************************************************)
(* Post-it Notes service (src/main.py): one sqlite table `notes`, an HTTP  *)
(* facade (FastAPI) and a Telegram bot gateway, both running as handlers   *)
(* on one asyncio event loop.                                              *)
(*                                                                         *)
(* Every sqlite call in a handler is a blocking call made inline, so the   *)
(* database part of a handler is one atomic step.  The only suspension     *)
(* point of a handler is the bot's `await update.message.reply_text(...)`, *)
(* which comes after the database part; it is modelled by botPc.           *)
(* Optional values are sequences of length at most one: None is << >>.     *)
(* The messaging transport is taken to deliver what reply_text is given,   *)
(* and every update handed to a bot handler carries update.message.        *)
(* sqlite raising inside a handler is an input of the handler: the         *)
(* statement at which it raises.                                           *)
(***************************************************************************)
EXTENDS Integers, Sequences, FiniteSets, TLC

VARIABLES notes, seq, now, secret, out, botPc, created, delCount

vars == <<notes, seq, now, secret, out, botPc, created, delCount>>

\* ------------------------------------------------------------------ bounds
MaxId == 2
MaxTime == 1

\* ------------------------------------------------------- values and inputs
None == << >>
Some(x) == <<x>>

Range(s) == {s[i] : i \in 1..Len(s)}

Max(a, b) == IF a >= b THEN a ELSE b

RECURSIVE SetMax(_)
SetMax(S) == IF S = {} THEN 0
             ELSE LET x == CHOOSE y \in S : TRUE IN Max(x, SetMax(S \ {x}))

colors == <<"color-yellow", "color-pink", "color-cyan", "color-orange",
            "color-blue", "color-green", "color-lavender", "color-peach">>

\* the index random.choice draws in Spec and SpecGuard; SpecColor draws all
Draws == {5}

get_random_color(i) == colors[i]

\* os.getenv("SECRET_PASSWORD", "12345"): the secret when the variable is unset,
\* and the values the variable is given otherwise
DefaultSecret == "12345"
Secrets == {DefaultSecret, "Parol"}

Candidates == {"12346", "", "parol"}

Passwords == {None} \cup {Some(c) : c \in Secrets}

\* bodies of POST /api/notes
NoteCreate == {
  [question |-> "Hello", telegram_user_id |-> None, telegram_username |-> None],
  [question |-> "Salom", telegram_user_id |-> Some(42), telegram_username |-> Some("alice")] }

\* inbound plain-text updates of the bot: effective_user and message.text
Updates == {
  [user |-> [id |-> 42, username |-> Some("alice"), first_name |-> "Alice"], text |-> "Salom"],
  [user |-> [id |-> 7, username |-> None, first_name |-> "Bob"], text |-> "Hello"] }

\* the statement of a handler at which sqlite raises ("none": it does not)
CreateFaults == {"none", "commit", "select"}
MessageFaults == {"none", "commit"}
ListFaults == {"none", "select"}
DeleteFaults == {"none", "select", "commit"}
StatsFaults == {"none", "last"}
BotStatsFaults == {"none", "users"}

\* ---------------------------------------------------------- the notes table
Ids(rows) == {rows[i].id : i \in 1..Len(rows)}

\* INTEGER PRIMARY KEY AUTOINCREMENT: one more than the largest rowid the
\* table has ever held (sqlite_sequence), never a rowid used before
NextRowidReuse(rows, s) == SetMax(Ids(rows)) + 1
NextRowidCount(rows, s) == Len(rows) + 1
NextRowid(rows, s) == Max(s, SetMax(Ids(rows))) + 1

\* INSERT INTO notes (question, color, telegram_user_id, telegram_username);
\* id and created_at take their column defaults
NewRow(rows, s, t, question, color, uid, uname) ==
  [id |-> NextRowid(rows, s), question |-> question, created_at |-> t,
   color |-> color, telegram_user_id |-> uid, telegram_username |-> uname]

\* the INSERT is durable once conn.commit() has returned
CommittedAlways(fault) == TRUE
Committed(fault) == fault \notin {"connect", "insert", "commit"}

\* SELECT * FROM notes WHERE id = ? ; fetchone()
LookupAny(rows, id) == Some([id |-> id])
Lookup(rows, id) ==
  IF \E i \in 1..Len(rows) : rows[i].id = id
  THEN Some(rows[CHOOSE i \in 1..Len(rows) : rows[i].id = id])
  ELSE None

\* DELETE FROM notes WHERE id = ?
DeleteFromUpTo(rows, id) == SelectSeq(rows, LAMBDA r : r.id > id)
DeleteFrom(rows, id) == SelectSeq(rows, LAMBDA r : r.id # id)

Perms(n) == {p \in [1..n -> 1..n] : \A i, j \in 1..n : p[i] = p[j] => i = j}

\* SELECT ... ORDER BY created_at DESC: every order of the rows in which
\* created_at never increases (SQL leaves the order of equal keys open)
OrderByAsc(rows) ==
  {[i \in 1..Len(rows) |-> rows[p[i]]] : p \in
     {q \in Perms(Len(rows)) :
        \A i, j \in 1..Len(rows) : i < j => rows[q[i]].created_at <= rows[q[j]].created_at}}
OrderByCreatedAtDesc(rows) ==
  {[i \in 1..Len(rows) |-> rows[p[i]]] : p \in
     {q \in Perms(Len(rows)) :
        \A i, j \in 1..Len(rows) : i < j => rows[q[i]].created_at >= rows[q[j]].created_at}}

\* SELECT COUNT(*) FROM notes
CountAll(rows) == Len(rows)

\* SELECT COUNT(DISTINCT telegram_user_id) ... WHERE telegram_user_id IS NOT NULL
CountUsersWithNull(rows) == Cardinality({rows[i].telegram_user_id : i \in 1..Len(rows)})
CountUsers(rows) ==
  Cardinality({rows[i].telegram_user_id : i \in
                 {j \in 1..Len(rows) : rows[j].telegram_user_id # None}})

\* SELECT created_at ... ORDER BY created_at DESC LIMIT 1
LastNote(rows) ==
  IF rows = << >> THEN None ELSE Some(SetMax({rows[i].created_at : i \in 1..Len(rows)}))

\* ------------------------------------------------------------ access guard
\* data.password == SECRET_PASSWORD
Lower(s) == IF s = "Parol" THEN "parol" ELSE s
password_matches_nocase(candidate, s) == Lower(candidate) = Lower(s)
password_matches(candidate, s) == candidate = s

\* password != SECRET_PASSWORD, password an optional query parameter
rejected_unless_absent(password, s) == password # None /\ password # Some(s)
rejected(password, s) == password # Some(s)

\* ---------------------------------------------------------------- Init
Init ==
  /\ notes = << >>
  /\ seq = 0
  /\ now = 0
  /\ secret = DefaultSecret
  /\ out = [op |-> "none"]
  /\ botPc = "idle"
  /\ created = {}
  /\ delCount = [i \in 1..MaxId |-> 0]

\* the process started with SECRET_PASSWORD set in the environment
InitEnv ==
  /\ notes = << >>
  /\ seq = 0
  /\ now = 0
  /\ secret \in Secrets
  /\ out = [op |-> "none"]
  /\ botPc = "idle"
  /\ created = {}
  /\ delCount = [i \in 1..MaxId |-> 0]

\* CURRENT_TIMESTAMP has a resolution of one second
Tick ==
  /\ now < MaxTime
  /\ now' = now + 1
  /\ UNCHANGED <<notes, seq, secret, out, botPc, created, delCount>>

\* ---------------------------------------------------------- HTTP handlers
check_password(candidate) ==
  /\ out' = IF password_matches(candidate, secret)
            THEN [op |-> "check", status |-> 200, conn |-> FALSE, authorized |-> TRUE]
            ELSE [op |-> "check", status |-> 401, conn |-> FALSE]
  /\ UNCHANGED <<notes, seq, now, secret, botPc, created, delCount>>

get_notes(password, fault) ==
  /\ \/ /\ rejected(password, secret)
        /\ out' = [op |-> "list", status |-> 401, conn |-> FALSE]
     \/ /\ ~rejected(password, secret)
        /\ fault # "none"
        /\ out' = [op |-> "list", status |-> 500, conn |-> TRUE]
     \/ /\ ~rejected(password, secret)
        /\ fault = "none"
        /\ \E body \in OrderByCreatedAtDesc(notes) :
             out' = [op |-> "list", status |-> 200, conn |-> TRUE, body |-> body]
  /\ UNCHANGED <<notes, seq, now, secret, botPc, created, delCount>>

create_note(note, draw, fault) ==
  LET row == NewRow(notes, seq, now, note.question, get_random_color(draw),
                    note.telegram_user_id, note.telegram_username)
  IN /\ row.id <= MaxId
     /\ Len(notes) < MaxId
     /\ IF Committed(fault)
        THEN /\ notes' = Append(notes, row)
             /\ seq' = row.id
             /\ created' = created \cup {row.id}
        ELSE UNCHANGED <<notes, seq, created>>
     /\ out' = IF fault = "none"
               THEN [op |-> "create", status |-> 200, conn |-> TRUE, note |-> row]
               ELSE [op |-> "create", status |-> 500, conn |-> TRUE]
     /\ UNCHANGED <<now, secret, botPc, delCount>>

delete_note(note_id, password, fault) ==
  \/ /\ rejected(password, secret)
     /\ out' = [op |-> "delete", status |-> 401, conn |-> FALSE, id |-> note_id]
     /\ UNCHANGED <<notes, seq, now, secret, botPc, created, delCount>>
  \/ /\ ~rejected(password, secret)
     /\ fault \in {"connect", "select"}
     /\ out' = [op |-> "delete", status |-> 500, conn |-> TRUE, id |-> note_id]
     /\ UNCHANGED <<notes, seq, now, secret, botPc, created, delCount>>
  \/ /\ ~rejected(password, secret)
     /\ fault \notin {"connect", "select"}
     /\ Lookup(notes, note_id) = None
     /\ out' = [op |-> "delete", status |-> 404, conn |-> TRUE, id |-> note_id]
     /\ UNCHANGED <<notes, seq, now, secret, botPc, created, delCount>>
  \/ /\ ~rejected(password, secret)
     /\ fault \in {"delete", "commit"}
     /\ Lookup(notes, note_id) # None
     /\ out' = [op |-> "delete", status |-> 500, conn |-> TRUE, id |-> note_id]
     /\ UNCHANGED <<notes, seq, now, secret, botPc, created, delCount>>
  \/ /\ ~rejected(password, secret)
     /\ fault = "none"
     /\ Lookup(notes, note_id) # None
     /\ notes' = DeleteFrom(notes, note_id)
     /\ delCount' = [delCount EXCEPT ![note_id] = IF @ < 2 THEN @ + 1 ELSE @]
     /\ out' = [op |-> "delete", status |-> 200, conn |-> TRUE, id |-> note_id]
     /\ UNCHANGED <<seq, now, secret, botPc, created>>

get_stats(password, fault) ==
  /\ out' = IF rejected(password, secret)
            THEN [op |-> "stats", status |-> 401, conn |-> FALSE]
            ELSE IF fault # "none"
            THEN [op |-> "stats", status |-> 500, conn |-> TRUE]
            ELSE [op |-> "stats", status |-> 200, conn |-> TRUE,
                  total_notes |-> CountAll(notes), total_users |-> CountUsers(notes),
                  last_note |-> LastNote(notes), timestamp |-> now]
  /\ UNCHANGED <<notes, seq, now, secret, botPc, created, delCount>>

\* ------------------------------------------------------------ bot handlers
GREETING == "Salom! Men Post-it Notes botiman."
USAGE == "Qanday foydalanish:"
STATS_TEXT == "Statistika:"
STATS_ERROR == "Statistika olishda xatolik"
SAVED_TEXT == "Savolingiz saqlandi! (ID: {note_id})"
SAVE_ERROR == "Saqlashda xatolik yuz berdi. Iltimos, qaytadan urinib ko'ring."

\* user.username or user.first_name
display_name_no_fallback(user) == user.username
display_name(user) ==
  IF user.username # None /\ user.username[1] # ""
  THEN user.username
  ELSE Some(user.first_name)

\* the reply_text calls of stats_command: one in the try block, or one in
\* the except block when sqlite raised before it
stats_replies(fault, total, users, t) ==
  IF fault = "none"
  THEN [replies |-> <<[text |-> STATS_TEXT, total |-> total, users |-> users, time |-> t]>>,
        raised |-> FALSE]
  ELSE [replies |-> <<[text |-> STATS_ERROR]>>, raised |-> FALSE]

\* the reply_text calls of handle_message
message_replies(fault, note_id) ==
  IF fault = "none"
  THEN [replies |-> <<[text |-> SAVED_TEXT, note_id |-> note_id]>>, raised |-> FALSE]
  ELSE [replies |-> <<[text |-> SAVE_ERROR]>>, raised |-> FALSE]

start_command ==
  /\ botPc = "idle"
  /\ botPc' = "awaiting"
  /\ out' = [op |-> "start", replies |-> <<[text |-> GREETING]>>, raised |-> FALSE]
  /\ UNCHANGED <<notes, seq, now, secret, created, delCount>>

help_command ==
  /\ botPc = "idle"
  /\ botPc' = "awaiting"
  /\ out' = [op |-> "help", replies |-> <<[text |-> USAGE]>>, raised |-> FALSE]
  /\ UNCHANGED <<notes, seq, now, secret, created, delCount>>

stats_command(fault) ==
  /\ botPc = "idle"
  /\ botPc' = "awaiting"
  /\ out' = [op |-> "bot_stats"] @@
            stats_replies(fault, CountAll(notes), CountUsers(notes), now)
  /\ UNCHANGED <<notes, seq, now, secret, created, delCount>>

handle_message(update, draw, fault) ==
  LET row == NewRow(notes, seq, now, update.text, get_random_color(draw),
                    Some(update.user.id), display_name(update.user))
  IN /\ botPc = "idle"
     /\ row.id <= MaxId
     /\ Len(notes) < MaxId
     /\ botPc' = "awaiting"
     /\ IF Committed(fault)
        THEN /\ notes' = Append(notes, row)
             /\ seq' = row.id
             /\ created' = created \cup {row.id}
        ELSE UNCHANGED <<notes, seq, created>>
     /\ out' = [op |-> "message"] @@ message_replies(fault, row.id)
     /\ UNCHANGED <<now, secret, delCount>>

\* the awaited reply_text of the running bot handler completes and the
\* handler returns; updates are processed one at a time
ReplyDone ==
  /\ botPc = "awaiting"
  /\ botPc' = "idle"
  /\ UNCHANGED <<notes, seq, now, secret, out, created, delCount>>

\* ------------------------------------------------------------------- Next
CheckPassword == \E c \in Candidates \cup Secrets : check_password(c)
GetNotes == \E p \in Passwords, f \in ListFaults : get_notes(p, f)
CreateNote == \E n \in NoteCreate, d \in Draws, f \in CreateFaults : create_note(n, d, f)
DeleteNote == \E i \in 1..MaxId, p \in Passwords, f \in DeleteFaults : delete_note(i, p, f)
GetStats == \E p \in Passwords, f \in StatsFaults : get_stats(p, f)
StatsCommand == \E f \in BotStatsFaults : stats_command(f)
HandleMessage == \E u \in Updates, d \in Draws, f \in MessageFaults : handle_message(u, d, f)

Next ==
  \/ Tick
  \/ CheckPassword
  \/ GetNotes
  \/ CreateNote
  \/ DeleteNote
  \/ GetStats
  \/ start_command
  \/ help_command
  \/ StatsCommand
  \/ HandleMessage
  \/ ReplyDone

Spec == Init /\ [][Next]_vars

\* the HTTP facade alone, under either configured secret
NextHttp ==
  \/ CheckPassword
  \/ GetNotes
  \/ CreateNote
  \/ DeleteNote
  \/ GetStats

SpecGuard == InitEnv /\ [][NextHttp]_vars

\* creates and deletes alone, random.choice drawing any of the colors
AllDraws == 1..Len(colors)

CreateNoteAnyColor ==
  \E n \in {m \in NoteCreate : m.telegram_user_id = None}, d \in AllDraws, f \in CreateFaults :
    create_note(n, d, f)

HandleMessageAnyColor ==
  \E u \in {v \in Updates : v.user.username = None}, d \in AllDraws, f \in MessageFaults :
    handle_message(u, d, f)

DeleteNoteAuthorized == \E i \in 1..MaxId : delete_note(i, Some(secret), "none")

NextColor ==
  \/ CreateNoteAnyColor
  \/ HandleMessageAnyColor
  \/ DeleteNoteAuthorized
  \/ ReplyDone

SpecColor == Init /\ [][NextColor]_vars

\* ----------------------------------------------------------------- claims
EightLabels == {"color-yellow", "color-pink", "color-cyan", "color-orange",
                "color-blue", "color-green", "color-lavender", "color-peach"}

Reverse(s) == [i \in 1..Len(s) |-> s[Len(s) + 1 - i]]

RECURSIVE SumTo(_, _)
SumTo(f, n) == IF n = 0 THEN 0 ELSE f[n] + SumTo(f, n - 1)

Last(s) == s[Len(s)]

\* C1: a create (POST /api/notes or a bot text message) with question Q that
\* succeeds persists and returns a record whose question is Q, whose color is
\* one of the 8 labels and whose id is greater than the id of every note
\* created before it, deleted ones included.
C1_CreateFreshRecord ==
  [][ /\ out'.op = "create" => \A n \in NoteCreate, d \in AllDraws :
           create_note(n, d, "none") =>
             /\ out'.status = 200
             /\ out'.note = Last(notes')
             /\ notes' = Append(notes, out'.note)
             /\ out'.note.question = n.question
             /\ out'.note.color \in EightLabels
             /\ \A i \in created \cup Ids(notes) : out'.note.id > i
      /\ out'.op = "message" => \A u \in Updates, d \in AllDraws :
           handle_message(u, d, "none") =>
             /\ notes' = Append(notes, Last(notes'))
             /\ out'.replies[1].note_id = Last(notes').id
             /\ Last(notes').question = u.text
             /\ Last(notes').color \in EightLabels
             /\ \A i \in created \cup Ids(notes) : Last(notes').id > i ]_vars

\* a note is created after an earlier note was deleted
C1_Witness ==
  /\ out.op = "create"
  /\ out.status = 200
  /\ out.note.id = 2
  /\ delCount[1] = 1
  /\ out.note.color = "color-peach"

ListedOk == out.op = "list" /\ out.status = 200

SortedDesc(body) ==
  \A i, j \in 1..Len(body) : i < j => body[i].created_at >= body[j].created_at

\* C2 as stated: listing after N inserts into an empty store returns exactly
\* the N records in reverse insertion order.
C2_ReverseInsertionOrder ==
  (ListedOk /\ \A i \in 1..MaxId : delCount[i] = 0) => out.body = Reverse(notes)

\* C2 as amended: a list returns every stored note exactly once, sorted by
\* created_at descending; it is the reverse insertion order when created_at
\* strictly increases with insertion, and notes inserted within the same
\* second may come in either order.
C2_SortedByCreatedAt ==
  ListedOk =>
    /\ Len(out.body) = Len(notes)
    /\ Range(out.body) = Range(notes)
    /\ SortedDesc(out.body)
    /\ (\A i, j \in 1..Len(notes) : i < j => notes[i].created_at < notes[j].created_at)
         => out.body = Reverse(notes)

\* two notes of the same second are listed oldest first
C2_Witness ==
  /\ ListedOk
  /\ Len(out.body) = 2
  /\ out.body[1].created_at = out.body[2].created_at
  /\ out.body[1].id < out.body[2].id

\* C3: a delete with the correct password of an id that was never created
\* or was already deleted answers 404 (sqlite not raising before the lookup
\* has returned) and leaves the table unchanged.
C3_DeleteMissingNotFound ==
  [][ out'.op = "delete" => \A i \in {out'.id}, f \in DeleteFaults :
        ((i \notin created \/ delCount[i] > 0) /\ delete_note(i, Some(secret), f)) =>
          /\ f # "select" => out'.status = 404
          /\ notes' = notes
          /\ seq' = seq ]_vars

\* a second delete of an id, beside a stored note
C3_Witness ==
  /\ out.op = "delete"
  /\ out.status = 404
  /\ delCount[out.id] = 1
  /\ notes # << >>

\* C4: list, delete and stats answer 401 to every request whose password is
\* absent or differs from the secret, whether or not the note exists,
\* without opening the database and without changing the table.
C4_GuardedRejects ==
  [][ out'.op \in {"list", "delete", "stats"} => \A p \in Passwords : p # Some(secret) =>
        /\ \A f \in ListFaults : get_notes(p, f) =>
             out'.status = 401 /\ ~out'.conn /\ notes' = notes /\ seq' = seq
        /\ \A i \in 1..MaxId, f \in DeleteFaults : delete_note(i, p, f) =>
             out'.status = 401 /\ ~out'.conn /\ notes' = notes /\ seq' = seq
        /\ \A f \in StatsFaults : get_stats(p, f) =>
             out'.status = 401 /\ ~out'.conn /\ notes' = notes /\ seq' = seq ]_vars

\* a delete of a stored note is turned away
C4_Witness ==
  /\ out.op = "delete"
  /\ out.status = 401
  /\ out.id \in Ids(notes)

\* C5: the password check answers authorized=true exactly when the candidate
\* is the configured secret, character for character; any other candidate,
\* the empty string included, gets 401; neither the table nor the secret
\* changes.
C5_CheckExactMatch ==
  [][ out'.op = "check" => \A c \in Candidates \cup Secrets :
        check_password(c) =>
          /\ c = secret => out'.status = 200 /\ out'.authorized
          /\ c # secret => out'.status = 401
          /\ notes' = notes
          /\ seq' = seq
          /\ secret' = secret ]_vars

\* a candidate is turned away under the secret "Parol", with a note stored
C5_Witness ==
  /\ out.op = "check"
  /\ out.status = 401
  /\ secret = "Parol"
  /\ notes # << >>

StoredUserIds == {u \in {7, 42} : \E i \in 1..Len(notes) : notes[i].telegram_user_id = <<u>>}

\* C6: a stats read (GET /api/stats and the bot's /stats) reports the number
\* of stored notes, which is the number of inserts minus the number of
\* successful deletes, and the number of distinct non-null telegram_user_id
\* values among the stored notes.
C6_StatsCounts ==
  /\ (out.op = "stats" /\ out.status = 200) =>
       /\ out.total_notes = Len(notes)
       /\ out.total_notes = Cardinality(created) - SumTo(delCount, MaxId)
       /\ out.total_users = Cardinality(StoredUserIds)
  /\ (out.op = "bot_stats" /\ out.replies[1].text = STATS_TEXT) =>
       /\ out.replies[1].total = Len(notes)
       /\ out.replies[1].total = Cardinality(created) - SumTo(delCount, MaxId)
       /\ out.replies[1].users = Cardinality(StoredUserIds)

\* two notes stored, one of them without a submitter id
C6_Witness ==
  /\ out.op = "stats"
  /\ out.status = 200
  /\ out.total_notes = 2
  /\ out.total_users = 1
  /\ \E i \in 1..Len(notes) : notes[i].telegram_user_id = None

\* C7: a plain text message T from the sender with id U, sqlite not raising,
\* adds exactly one note with question T, telegram_user_id U and
\* telegram_username the sender's username, or the first name when there is
\* no username; the reply carries the new note's id.
C7_MessageStored ==
  [][ out'.op = "message" => \A u \in Updates, d \in Draws :
        handle_message(u, d, "none") =>
          /\ Len(notes') = Len(notes) + 1
          /\ SubSeq(notes', 1, Len(notes)) = notes
          /\ Last(notes').question = u.text
          /\ Last(notes').telegram_user_id = <<u.user.id>>
          /\ Last(notes').telegram_username =
               (IF u.user.username = << >> THEN <<u.user.first_name>> ELSE u.user.username)
          /\ Len(out'.replies) = 1
          /\ out'.replies[1].text = SAVED_TEXT
          /\ out'.replies[1].note_id = Last(notes').id ]_vars

\* a sender without a username is stored under the first name
C7_Witness ==
  /\ out.op = "message"
  /\ out.replies[1].text = SAVED_TEXT
  /\ notes # << >>
  /\ Last(notes).id = out.replies[1].note_id
  /\ Last(notes).telegram_username = <<"Bob">>

BotOps == {"start", "help", "bot_stats", "message"}

C9_OnlyDeleteRemoves ==
  [][ /\ \A i \in 1..Len(notes) :
           \/ \E j \in 1..Len(notes') : notes'[j] = notes[i]
           \/ delete_note(notes[i].id, Some(secret), "none")
      /\ out'.op = "delete" => \A id \in {out'.id} :
           (id \in Ids(notes) /\ delete_note(id, Some(secret), "none")) =>
             /\ Len(notes') = Len(notes) - 1
             /\ \A i \in 1..Len(notes) :
                  notes[i].id # id => \E j \in 1..Len(notes') : notes'[j] = notes[i] ]_vars

\* the newer of two notes was deleted and the older is still stored
C9_Witness ==
  /\ out.op = "delete"
  /\ out.status = 200
  /\ out.id = 2
  /\ 1 \in Ids(notes)

\* C10: with HTTP handlers running while a bot handler is suspended in its
\* reply, ids of stored notes are unique, every inserted note is stored
\* unless a delete removed it, at most one delete of an id ever succeeds,
\* and a further delete of that id finds nothing.
C10_NoCorruption ==
  /\ [](/\ \A i, j \in 1..Len(notes) : notes[i].id = notes[j].id => i = j
        /\ \A id \in created : id \in Ids(notes) \/ delCount[id] >= 1
        /\ \A id \in 1..MaxId : delCount[id] <= 1
        /\ \A id \in 1..MaxId : delCount[id] = 1 => id \notin Ids(notes))
  /\ [][ out'.op = "delete" => \A id \in {out'.id} :
           (delCount[id] >= 1 /\ delete_note(id, Some(secret), "none")) =>
             out'.status = 404 /\ delCount' = delCount ]_vars

\* a delete succeeded while the bot handler was awaiting its reply
C10_Witness ==
  /\ botPc = "awaiting"
  /\ out.op = "delete"
  /\ out.status = 200
  /\ delCount[out.id] = 1
  /\ notes # << >>

====
